---- MODULE Spec2Model ----
(***************************************************************************)
(* A model of models/models/tcdnnet.py: the causal convolution             *)
(* (CasualConv1d), the dense and temporal-convolution blocks (DenseBlock,  *)
(* TCBlock), the masked self-attention (AttentionBlock) and the network    *)
(* that composes them (TCDNNet).                                           *)
(*                                                                         *)
(* Tensors are functions over 0-based index ranges, as in the source.      *)
(* Three specifications exercise the three layers of the file:             *)
(*   SpecConv  CasualConv1d on one channel, with integer values;           *)
(*   SpecAttn  AttentionBlock on one channel, with exact softmax values;   *)
(*   SpecNet   TCDNNet.forward on tensor shapes and time dependencies.     *)
(***************************************************************************)
EXTENDS Integers, Sequences, FiniteSets, TLC

VARIABLES
    conv,            \* CasualConv1d: the constructed module (stride, conv1d)
    conv_input,      \* CasualConv1d.forward: the argument of the last call
    conv_raw,        \* CasualConv1d.forward: self.conv1d(input), before the slice
    conv_out,        \* CasualConv1d.forward: the returned tensor
    conv_pc,         \* CasualConv1d: "constructed", then "returned" after a call
    att,             \* AttentionBlock: the three linear layers
    att_input,       \* AttentionBlock.forward: input, (N, T, 1)
    att_time_steps,  \* AttentionBlock.forward: time_steps, (N, T) or None
    att_mask,        \* AttentionBlock.forward: mask
    att_raw,         \* AttentionBlock.forward: raw, (N, T, T)
    att_rel,         \* AttentionBlock.forward: rel, (N, T, T)
    att_out,         \* AttentionBlock.forward: cat((input, tmp), dim=2)
    att_pc,          \* AttentionBlock: "constructed", then "returned" after a call
    net,             \* TCDNNet: the constructed network
    net_pc,          \* TCDNNet.forward: the position in the call
    net_input,       \* TCDNNet.forward: the shape (N, T, C) of the argument input
    net_additional,  \* TCDNNet.forward: the argument additional, None or its width
    net_x,           \* TCDNNet.forward: the tensor x (TCBlock.forward: input)
    net_rel,         \* TCDNNet.forward: the shape of rel
    net_raw,         \* TCDNNet.forward: the shape of raw
    net_i,           \* TCDNNet.forward: the loop index i
    tc_stage         \* TCBlock.forward: the index of the next dense block

convVars == <<conv, conv_input, conv_raw, conv_out, conv_pc>>
attVars  == <<att, att_input, att_time_steps, att_mask, att_raw, att_rel, att_out,
             att_pc>>
netVars  == <<net, net_pc, net_input, net_additional, net_x, net_rel, net_raw, net_i,
             tc_stage>>
vars     == <<convVars, attVars, netVars>>

None == "None"

\* ------------------------------------------------------------------------
\* Bounds of the model
\* ------------------------------------------------------------------------
MaxLen      == 4   \* longest time axis given to CasualConv1d
MaxKernel   == 3   \* largest kernel_size
MaxStride   == 2   \* largest stride
MaxDilation == 2   \* largest dilation
MaxSeq      == 3   \* longest sequence given to AttentionBlock
MaxBatch    == 2   \* largest batch given to AttentionBlock
MaxCells    == 4   \* most sequence elements (batch * length) in one call
MaxTime     == 2   \* largest time step
MaxNetSeq   == 4   \* longest sequence a TCDNNet is built for or called with
MaxChannels == 2   \* most channels of the input of a TCDNNet
MaxTC       == 2   \* most temporal blocks of a TCDNNet

InputVals  == {0, 1}   \* values of an input element
WeightVals == {1, 2}   \* values of a convolution weight
BiasVals   == {0, 1}   \* values of a bias

\* ------------------------------------------------------------------------
\* Arithmetic helpers
\* ------------------------------------------------------------------------
Min(a, b) == IF a < b THEN a ELSE b

RECURSIVE SumTo(_, _)
\* sum of f[0] .. f[n-1]
SumTo(f, n) == IF n = 0 THEN 0 ELSE SumTo(f, n - 1) + f[n - 1]

\* ------------------------------------------------------------------------
\* CasualConv1d
\* ------------------------------------------------------------------------

\* a mis-set padding: the "same" padding of a centred convolution
PaddingCentred(dilation, kernel_size) == dilation * ((kernel_size - 1) \div 2)

\* CasualConv1d.__init__: padding = dilation * (kernel_size - 1)
Padding(dilation, kernel_size) == dilation * (kernel_size - 1)

\* CasualConv1d.__init__ with in_channels = out_channels = groups = 1
CasualConv1dInit(kernel_size, stride, dilation, weight, bias) ==
    [stride |-> stride,
     conv1d |-> [kernel_size |-> kernel_size,
                 stride      |-> stride,
                 padding     |-> Padding(dilation, kernel_size),
                 dilation    |-> dilation,
                 weight      |-> weight,
                 bias        |-> bias]]

\* nn.Conv1d pads both sides with zeros: the element at index i of the padded input
PaddedAt(input, length, padding, i) ==
    IF i >= padding /\ i < padding + length THEN input[i - padding] ELSE 0

\* nn.Conv1d: the length of the output for an input of the given length
Conv1dLength(c, length) ==
    LET n == (length - 1) + c.padding + (c.padding - c.dilation * (c.kernel_size - 1))
    IN  IF n < 0 THEN 0 ELSE (n \div c.stride) + 1

\* nn.Conv1d: the indices of the padded input that output position o reads
Conv1dTaps(c, o) == {o * c.stride + m * c.dilation : m \in 0..(c.kernel_size - 1)}

\* nn.Conv1d.forward (cross-correlation), one channel
Conv1dForward(c, input, length) ==
    [o \in 0..(Conv1dLength(c, length) - 1) |->
        c.bias + SumTo([m \in 0..(c.kernel_size - 1) |->
                          c.weight[m] * PaddedAt(input, length, c.padding,
                                                 o * c.stride + m * c.dilation)],
                       c.kernel_size)]

\* CasualConv1d.forward: out_length = (length + self.stride - 1) // self.stride
OutLength(length, stride) == (length + stride - 1) \div stride

\* a slice that keeps the trailing positions: out[:, :, -out_length:]
SliceTail(out, n, out_length) ==
    LET keep == Min(n, out_length)
    IN  [o \in 0..(keep - 1) |-> out[o + (n - keep)]]

\* CasualConv1d.forward: out[:, :, :out_length], on a tensor of n positions
Slice(out, n, out_length) == [o \in 0..(Min(n, out_length) - 1) |-> out[o]]

\* CasualConv1d.forward
CasualConv1dForward(m, input, length) ==
    LET out_length == OutLength(length, m.stride)
        out        == Conv1dForward(m.conv1d, input, length)
    IN  Slice(out, Conv1dLength(m.conv1d, length), out_length)

\* the length of a tensor (its time axis)
Length(f) == Cardinality(DOMAIN f)

Inputs(length) == [0..(length - 1) -> InputVals]

ConvIdle == /\ conv = None /\ conv_input = None /\ conv_raw = None /\ conv_out = None
            /\ conv_pc = "idle"
AttIdle  == /\ att = None /\ att_input = None /\ att_time_steps = None
            /\ att_mask = None /\ att_raw = None /\ att_rel = None /\ att_out = None
            /\ att_pc = "idle"
NetIdle  == /\ net = None /\ net_pc = "idle" /\ net_input = None
            /\ net_additional = None /\ net_x = None /\ net_rel = None
            /\ net_raw = None /\ net_i = 0 /\ tc_stage = 0

\* the state after CasualConv1d(1, 1, kernel_size, stride, dilation)
ConvInit ==
    /\ \E kernel_size \in 1..MaxKernel, stride \in 1..MaxStride,
          dilation \in 1..MaxDilation, bias \in BiasVals :
         \E weight \in [0..(kernel_size - 1) -> WeightVals] :
            conv = CasualConv1dInit(kernel_size, stride, dilation, weight, bias)
    /\ conv_input = None /\ conv_raw = None /\ conv_out = None
    /\ conv_pc = "constructed"
    /\ AttIdle /\ NetIdle

\* a call of CasualConv1d.forward(input); the module keeps no state between calls,
\* so a behaviour makes one
ConvForward ==
    /\ conv_pc = "constructed"
    /\ \E length \in 1..MaxLen : \E input \in Inputs(length) :
         /\ conv_input' = input
         /\ conv_raw'   = Conv1dForward(conv.conv1d, input, length)
         /\ conv_out'   = CasualConv1dForward(conv, input, length)
    /\ conv_pc' = "returned"
    /\ UNCHANGED <<conv, attVars, netVars>>

ConvNext == ConvForward

SpecConv == ConvInit /\ [][ConvNext]_vars

\* the least n with n * b >= a, for a >= 0 and b >= 1
CeilDiv(a, b) == CHOOSE n \in 0..a : n * b >= a /\ (n = 0 \/ (n - 1) * b < a)

\* the input indices in [lo, hi]
Window(length, lo, hi) == {i \in 0..(length - 1) : i >= lo /\ i <= hi}

\* C4: CasualConv1d is causal. Every position o of the returned tensor reads the
\* padded input only at taps that lie in [o*stride - padding, o*stride] of the
\* input and never in the right-hand padding, and its value is the same for
\* every input of the same length that agrees with the given one on that window.
C4_CausalConv ==
    conv_pc = "returned" =>
        LET c      == conv.conv1d
            length == Length(conv_input)
        IN  \A o \in DOMAIN conv_out :
              /\ \A i \in Conv1dTaps(c, o) :
                    /\ i - c.padding >= o * c.stride - c.dilation * (c.kernel_size - 1)
                    /\ i - c.padding <= o * c.stride
                    /\ i < c.padding + length
              /\ \A other \in Inputs(length) :
                    (\A i \in Window(length,
                                     o * c.stride - c.dilation * (c.kernel_size - 1),
                                     o * c.stride) : other[i] = conv_input[i])
                    => /\ o \in DOMAIN CasualConv1dForward(conv, other, length)
                       /\ CasualConv1dForward(conv, other, length)[o] = conv_out[o]

\* C4: a call with a kernel wider than one tap, a padded convolution longer than
\* the returned tensor and an input with elements after the first output position
C4_Witness ==
    /\ conv_pc = "returned"
    /\ conv.conv1d.kernel_size >= 2
    /\ Length(conv_input) >= 3
    /\ Length(conv_raw) > Length(conv_out)
    /\ Length(conv_out) >= 2

\* C5: CasualConv1d.forward returns ceil(T / stride) time positions, and the padded
\* convolution it slices has at least that many.
C5_OutLength ==
    conv_pc = "returned" =>
        /\ Length(conv_out) = CeilDiv(Length(conv_input), conv.stride)
        /\ Length(conv_raw) >= CeilDiv(Length(conv_input), conv.stride)

\* C5: a call whose length is not a multiple of the stride
C5_Witness ==
    /\ conv_pc = "returned"
    /\ conv.stride >= 2
    /\ Length(conv_input) % conv.stride # 0
    /\ Length(conv_input) > conv.stride
    /\ conv.conv1d.kernel_size >= 2

\* ------------------------------------------------------------------------
\* Exact values of the softmax. With E = exp(1 / sqrt_key_size), the exponential
\* of a scaled score v / sqrt_key_size is the power E^v, and every weight is a
\* quotient of sums of such powers. A sum of powers is the tuple of its integer
\* coefficients, p[k] that of E^(k - 1), without trailing zeros; <<>> is 0. E is
\* transcendental, so two quotients are the same number exactly when they are
\* equal as quotients of polynomials. The scores of the model are integers >= 0.
\* ------------------------------------------------------------------------
RECURSIVE PNorm(_)
\* p without its trailing zeros
PNorm(p) == IF Len(p) > 0 /\ p[Len(p)] = 0 THEN PNorm(SubSeq(p, 1, Len(p) - 1)) ELSE p

PCoef(p, k) == IF k <= Len(p) THEN p[k] ELSE 0

\* the sequence c[1] .. c[n], computed once and kept as a tuple
Coefs(c) == c \o <<>>

PAdd(p, q) ==
    PNorm(Coefs([k \in 1..(IF Len(p) > Len(q) THEN Len(p) ELSE Len(q)) |->
                   PCoef(p, k) + PCoef(q, k)]))

PMul(p, q) ==
    IF p = <<>> \/ q = <<>> THEN <<>>
    ELSE Coefs([k \in 1..(Len(p) + Len(q) - 1) |->
                  SumTo([a \in 0..(k - 1) |-> PCoef(p, a + 1) * PCoef(q, k - a)], k)])

PScale(p, c) == PNorm(Coefs([k \in 1..Len(p) |-> c * p[k]]))

RECURSIVE PSum(_, _)
\* sum of the first n of the sequence ps
PSum(ps, n) == IF n = 0 THEN <<>> ELSE PAdd(PSum(ps, n - 1), ps[n])

\* the power E^v
Power(v) == Coefs([k \in 1..(v + 1) |-> IF k = v + 1 THEN 1 ELSE 0])

\* the quotient num / den; 0 / 0 is NaN
Quot(num, den) == [num |-> num, den |-> den]

IsNaN(w)  == w.den = <<>>
IsZero(w) == w.num = <<>> /\ w.den # <<>>
ZeroQuot  == Quot(<<>>, <<1>>)
OneQuot   == Quot(<<1>>, <<1>>)

\* two quotients are the same number
QEq(a, b) == ~IsNaN(a) /\ ~IsNaN(b) /\ PMul(a.num, b.den) = PMul(b.num, a.den)

\* a + b; a term that is 0 leaves the other as it is
QAdd(a, b) ==
    IF IsZero(a) /\ ~IsNaN(b) THEN b
    ELSE IF IsZero(b) /\ ~IsNaN(a) THEN a
    ELSE Quot(PAdd(PMul(a.num, b.den), PMul(b.num, a.den)), PMul(a.den, b.den))
QMulInt(a, k) == Quot(PScale(a.num, k), a.den)

RECURSIVE QSumTo(_, _)
\* sum of the quotients f[0] .. f[n-1]
QSumTo(f, n) == IF n = 0 THEN ZeroQuot ELSE QAdd(QSumTo(f, n - 1), f[n - 1])

\* ------------------------------------------------------------------------
\* AttentionBlock, with in_channels = key_size = value_size = 1
\* ------------------------------------------------------------------------

\* the parameters of a one-by-one nn.Linear
LinearParams == {[w |-> 1, b |-> 0], [w |-> 2, b |-> 1]}

\* nn.Linear.forward on one feature
Linear(layer, v) == layer.w * v + layer.b

\* AttentionBlock.__init__: sqrt_key_size = m.sqrt(key_size) is 1 for key_size = 1
AttentionBlockInit(query, keys, values) ==
    [linear_query |-> query, linear_keys |-> keys, linear_values |-> values,
     sqrt_key_size |-> 1]

\* the lower triangle instead of the upper one: tril(diagonal=-1)
IndexMaskLower(length) ==
    [dims |-> 2,
     at   |-> [i \in 0..(length - 1) |-> [j \in 0..(length - 1) |-> j + 1 <= i]]]

\* a mask that also covers the diagonal: triu(diagonal=0)
IndexMaskWithDiagonal(length) ==
    [dims |-> 2,
     at   |-> [i \in 0..(length - 1) |-> [j \in 0..(length - 1) |-> j >= i]]]

\* AttentionBlock.forward, time_steps is None:
\* t.ones([length, length]).triu(diagonal=1), shape (T, T)
IndexMask(length) ==
    [dims |-> 2,
     at   |-> [i \in 0..(length - 1) |-> [j \in 0..(length - 1) |-> j >= i + 1]]]

\* a mask with the comparison turned around
TimeMaskReversed(time_steps, batch, length) ==
    [dims |-> 3,
     at   |-> [b \in 0..(batch - 1) |-> [i \in 0..(length - 1) |->
                 [j \in 0..(length - 1) |-> time_steps[b][j] < time_steps[b][i]]]]]

\* AttentionBlock.forward, time_steps given:
\* time_steps.unsqueeze(dim=2) < time_steps.unsqueeze(dim=1), shape (N, T, T)
TimeMask(time_steps, batch, length) ==
    [dims |-> 3,
     at   |-> [b \in 0..(batch - 1) |-> [i \in 0..(length - 1) |->
                 [j \in 0..(length - 1) |-> time_steps[b][i] < time_steps[b][j]]]]]

\* the entry of a mask that is broadcast to (N, T, T)
MaskAt(mask, b, i, j) == IF mask.dims = 2 THEN mask.at[i][j] ELSE mask.at[b][i][j]

\* t.bmm(query, t.transpose(keys, 1, 2))
Bmm(query, keys, batch, length) ==
    [b \in 0..(batch - 1) |-> [i \in 0..(length - 1) |->
        [j \in 0..(length - 1) |-> query[b][i] * keys[b][j]]]]

\* tmp.masked_fill_(mask, -float('inf')): a score is -inf or a finite value
MaskedFill(scores, mask, batch, length) ==
    [b \in 0..(batch - 1) |-> [i \in 0..(length - 1) |->
        [j \in 0..(length - 1) |->
            [neg_inf |-> MaskAt(mask, b, i, j), v |-> scores[b][i][j]]]]]

\* tmp / self.sqrt_key_size, a true division: the quotient is kept as the score
\* v over the divisor, and -inf stays -inf
Scale(tmp, sqrt_key_size, batch, length) ==
    [b \in 0..(batch - 1) |-> [i \in 0..(length - 1) |->
        [j \in 0..(length - 1) |->
            [neg_inf |-> tmp[b][i][j].neg_inf,
             v       |-> tmp[b][i][j].v,
             over    |-> sqrt_key_size]]]]

\* the natural exponential of a scaled score s.v / s.over, as a power of
\* E = exp(1 / s.over): exp(-inf) = 0
Exp(s) == IF s.neg_inf THEN <<>> ELSE Power(s.v)

\* t.softmax(tmp, dim) on a (N, T, T) tensor, for dim = 1 or dim = 2: every entry is
\* divided by the sum over the slice that varies index dim alone. sums[m + 1] is
\* that sum for the slice through column m (dim = 1) or through row m (dim = 2).
Softmax(tmp, dim, batch, length) ==
    [b \in 0..(batch - 1) |->
        LET sums == Coefs([m \in 1..length |->
                       PSum(Coefs([k \in 1..length |->
                                     IF dim = 1 THEN Exp(tmp[b][k - 1][m - 1])
                                     ELSE Exp(tmp[b][m - 1][k - 1])]),
                            length)])
        IN  [i \in 0..(length - 1) |-> [j \in 0..(length - 1) |->
                Quot(Exp(tmp[b][i][j]), sums[IF dim = 1 THEN j + 1 ELSE i + 1])]]]

\* the softmax along the key axis, dim=2
SoftmaxKeyAxis(tmp, batch, length) == Softmax(tmp, 2, batch, length)

\* AttentionBlock.forward: t.softmax(tmp / self.sqrt_key_size, dim=1)
SoftmaxRel(tmp, batch, length) == Softmax(tmp, 1, batch, length)

\* t.bmm(rel, values)
BmmValues(weights, values, batch, length) ==
    [b \in 0..(batch - 1) |->
        LET w == weights[b]
        IN  [i \in 0..(length - 1) |->
                QSumTo([j \in 0..(length - 1) |-> QMulInt(w[i][j], values[b][j])],
                       length)]]

\* AttentionBlock.forward: the mask
Mask(time_steps, batch, length) ==
    IF ~time_steps.given THEN IndexMask(length)
    ELSE TimeMask(time_steps.at, batch, length)

\* AttentionBlock.forward: tmp = t.bmm(query, keys.transpose(1, 2)), the raw scores
AttentionScores(a, input, batch, length) ==
    LET keys  == [b \in 0..(batch - 1) |-> [i \in 0..(length - 1) |->
                     Linear(a.linear_keys, input[b][i])]]
        query == [b \in 0..(batch - 1) |-> [i \in 0..(length - 1) |->
                     Linear(a.linear_query, input[b][i])]]
    IN  Bmm(query, keys, batch, length)

\* AttentionBlock.forward: tmp.data.masked_fill_(mask, -inf) and
\* rel = t.softmax(tmp / self.sqrt_key_size, dim=1)
AttentionWeights(a, scores, mask, batch, length) ==
    LET tmp == MaskedFill(scores, mask, batch, length)
    IN  SoftmaxRel(Scale(tmp, a.sqrt_key_size, batch, length), batch, length)

\* AttentionBlock.forward: tmp = t.bmm(rel, values) and t.cat((input, tmp), dim=2)
AttentionOut(a, input, weights, batch, length) ==
    LET values == [b \in 0..(batch - 1) |-> [i \in 0..(length - 1) |->
                      Linear(a.linear_values, input[b][i])]]
        agg    == BmmValues(weights, values, batch, length)
    IN  [b \in 0..(batch - 1) |->
            LET tmp_b == agg[b]
            IN  [i \in 0..(length - 1) |-> <<input[b][i], tmp_b[i]>>]]

\* AttentionBlock.forward
AttentionBlockForward(a, input, time_steps, batch, length) ==
    LET mask    == Mask(time_steps, batch, length)
        scores  == AttentionScores(a, input, batch, length)
        weights == AttentionWeights(a, scores, mask, batch, length)
    IN  [mask |-> mask,
         out  |-> AttentionOut(a, input, weights, batch, length),
         rel  |-> weights,
         raw  |-> scores]

\* the shapes (N, T) of a call
AttShapes == {s \in (1..MaxBatch) \X (1..MaxSeq) : s[1] * s[2] <= MaxCells}

BatchInputs(batch, length) == [0..(batch - 1) -> [0..(length - 1) -> InputVals]]

\* the argument time_steps: None, or a tensor of shape (N, T)
NoTimeSteps == [given |-> FALSE, at |-> <<>>]
TimeSteps(batch, length) ==
    {NoTimeSteps} \cup
    {[given |-> TRUE, at |-> ts] :
        ts \in [0..(batch - 1) -> [0..(length - 1) -> 0..MaxTime]]}

\* the state after AttentionBlock(1, 1, 1)
AttInit ==
    /\ \E query \in LinearParams, keys \in LinearParams, values \in LinearParams :
         att = AttentionBlockInit(query, keys, values)
    /\ att_input = None /\ att_time_steps = None /\ att_mask = None
    /\ att_raw = None /\ att_rel = None /\ att_out = None
    /\ att_pc = "constructed"
    /\ ConvIdle /\ NetIdle

\* a call of AttentionBlock.forward(input, time_steps); the block keeps no state
\* between calls, so a behaviour makes one
AttForward ==
    /\ att_pc = "constructed"
    /\ \E s \in AttShapes : \E input \in BatchInputs(s[1], s[2]) :
       \E time_steps \in TimeSteps(s[1], s[2]) :
         /\ att_input' = input
         /\ att_time_steps' = time_steps
         /\ att_mask' = Mask(time_steps, s[1], s[2])
         /\ att_raw' = AttentionScores(att, input, s[1], s[2])
         /\ att_rel' = AttentionWeights(att, att_raw', att_mask', s[1], s[2])
         /\ att_out' = AttentionOut(att, input, att_rel', s[1], s[2])
    /\ att_pc' = "returned"
    /\ UNCHANGED <<att, convVars, netVars>>

AttNext == AttForward

SpecAttn == AttInit /\ [][AttNext]_vars

\* the shape of the last call of AttentionBlock.forward
AttBatch  == Length(att_input)
AttLength == Length(att_input[0])
AttB == 0..(AttBatch - 1)
AttT == 0..(AttLength - 1)

\* the sum of row i of rel over the key positions the mask leaves open
OpenRowSum(b, i) ==
    QSumTo([j \in AttT |-> IF MaskAt(att_mask, b, i, j) THEN ZeroQuot
                           ELSE att_rel[b][i][j]], AttLength)

\* C1 as stated: with time steps, mask[i][j] is true exactly when
\* NOT (timestep[j] < timestep[i]), so that equal time steps mask each other.
C1_Original ==
    (att_pc = "returned" /\ att_time_steps.given) =>
        \A b \in AttB : \A i \in AttT : \A j \in AttT :
            MaskAt(att_mask, b, i, j)
                <=> ~(att_time_steps.at[b][j] < att_time_steps.at[b][i])

\* C1 amended: with time steps, mask[i][j] is true exactly when j is strictly
\* after i, timestep[i] < timestep[j]; positions with equal time steps (i = j
\* among them) are not masked from each other.
C1_TimeMask ==
    (att_pc = "returned" /\ att_time_steps.given) =>
        /\ att_mask.dims = 3
        /\ \A b \in AttB : \A i \in AttT : \A j \in AttT :
             /\ MaskAt(att_mask, b, i, j)
                   <=> att_time_steps.at[b][i] < att_time_steps.at[b][j]
             /\ att_time_steps.at[b][i] = att_time_steps.at[b][j]
                   => ~MaskAt(att_mask, b, i, j) /\ ~MaskAt(att_mask, b, j, i)

\* C1: a call with time steps that has a tie between two positions and a later
\* position with an earlier time step, in a batch of two different rows
C1_Witness ==
    /\ att_pc = "returned" /\ att_time_steps.given
    /\ AttBatch = 2
    /\ att_time_steps.at[0] # att_time_steps.at[1]
    /\ \E b \in AttB : \E i \in AttT : \E j \in AttT :
         /\ i < j
         /\ att_time_steps.at[b][i] = att_time_steps.at[b][j]
    /\ \E b \in AttB : \E i \in AttT : \E j \in AttT :
         /\ i < j
         /\ att_time_steps.at[b][j] < att_time_steps.at[b][i]
         /\ MaskAt(att_mask, b, j, i)

\* C2: every row of rel sums to 1 over the key positions the mask leaves open, and
\* every masked entry of rel is exactly 0.
C2_RowsSumToOne ==
    att_pc = "returned" =>
        \A b \in AttB : \A i \in AttT :
            /\ QEq(OpenRowSum(b, i), OneQuot)
            /\ \A j \in AttT : MaskAt(att_mask, b, i, j) => IsZero(att_rel[b][i][j])

\* C3: without time steps, row i of the output and row i of rel are the same for
\* every input that agrees with the given one at the positions <= i.
C3_Causal ==
    (att_pc = "returned" /\ ~att_time_steps.given) =>
        \A other \in BatchInputs(AttBatch, AttLength) :
            LET r == AttentionBlockForward(att, other, NoTimeSteps, AttBatch, AttLength)
            IN  \A b \in AttB : \A i \in AttT :
                  (\A k \in 0..i : other[b][k] = att_input[b][k])
                  => /\ r.out[b][i][1] = att_out[b][i][1]
                     /\ QEq(r.out[b][i][2], att_out[b][i][2])
                     /\ \A j \in AttT : QEq(r.rel[b][i][j], att_rel[b][i][j])

\* C9: without time steps the mask is the strict upper triangle, mask[i][j] = true
\* iff j > i, and rel[i][j] is exactly 0 for every j > i in every batch element.
C9_IndexMask ==
    (att_pc = "returned" /\ ~att_time_steps.given) =>
        /\ att_mask.dims = 2
        /\ DOMAIN att_mask.at = AttT
        /\ \A i \in AttT : \A j \in AttT : att_mask.at[i][j] <=> j > i
        /\ \A b \in AttB : \A i \in AttT : \A j \in AttT :
             j > i => IsZero(att_rel[b][i][j])

\* C9: a call without time steps on a sequence of three or more elements
C9_Witness ==
    /\ att_pc = "returned" /\ ~att_time_steps.given
    /\ AttLength >= 3
    /\ att_mask.at[0][2] /\ ~att_mask.at[2][0] /\ ~att_mask.at[1][1]
    /\ IsZero(att_rel[0][0][2])

\* C10: in both mask modes the diagonal of the mask is false, every row and every
\* column of the mask has an open entry, and no slice the softmax normalizes is
\* all -inf: no entry of rel or of the output is NaN.
C10_DiagonalOpen ==
    att_pc = "returned" =>
        \A b \in AttB :
            /\ \A i \in AttT : ~MaskAt(att_mask, b, i, i)
            /\ \A i \in AttT : \E j \in AttT : ~MaskAt(att_mask, b, i, j)
            /\ \A j \in AttT : \E i \in AttT : ~MaskAt(att_mask, b, i, j)
            /\ \A i \in AttT : \A j \in AttT : ~IsNaN(att_rel[b][i][j])
            /\ \A i \in AttT : ~IsNaN(att_out[b][i][2])

\* C10: a call with time steps that are all equal, and so has no position strictly
\* before another, on a sequence of two or more elements
C10_Witness ==
    /\ att_pc = "returned" /\ att_time_steps.given
    /\ AttLength >= 2
    /\ \A b \in AttB : \A i \in AttT : \A j \in AttT :
         att_time_steps.at[b][i] = att_time_steps.at[b][j]

\* ------------------------------------------------------------------------
\* DenseBlock, TCBlock and TCDNNet, on tensor shapes and time dependencies.
\* A tensor is its shape, a tuple whose k-th entry is the size of torch's
\* dimension k - 1, and deps: for every position of its time axis, the set of
\* time positions of the network's input that the values there are computed from.
\* ------------------------------------------------------------------------

\* the outcome of an operation the tensor library rejects (a shape mismatch)
ShapeError == [ok |-> FALSE, shape |-> <<>>, deps |-> <<>>]

\* x before forward is called
NoTensor == [ok |-> FALSE, shape |-> <<>>, deps |-> <<>>]

Tensor(shape, deps) == [ok |-> TRUE, shape |-> shape, deps |-> deps]

\* t.transpose(input, 1, 2) of a tensor of three dimensions
Transpose(a) == Tensor(<<a.shape[1], a.shape[3], a.shape[2]>>, a.deps)

\* the least d with 2^d >= n: ceil(log2(n)) in exact arithmetic
RECURSIVE LeastPower(_, _)
LeastPower(n, d) == IF 2 ^ d >= n THEN d ELSE LeastPower(n, d + 1)
ExactCeilLog2(n) == LeastPower(n, 0)

\* m.log(n, 2) is the quotient of two double-precision logarithms. Of the n below
\* 2^31 these are the ones where the quotient lies above an integer that is the
\* exact logarithm: m.log(2 ** 29, 2) = 29.000000000000004. Every other power of
\* two gives its exponent exactly, and a length that is no power of two has a
\* logarithm further from an integer than the rounding error.
Log2RoundsUp == {2 ^ 29}

\* m.log(n, 2) followed by m.ceil and int, from the exponent d on
RECURSIVE CeilLog2From(_, _)
CeilLog2From(n, d) ==
    IF 2 ^ d >= n THEN (IF n \in Log2RoundsUp THEN d + 1 ELSE d)
    ELSE CeilLog2From(n, d + 1)

\* int(m.ceil(m.log(seq_length, 2)))
CeilLog2(n) == CeilLog2From(n, 0)

\* DenseBlock.__init__: two CasualConv1d(in_channels, filters, kernel_size=2,
\* dilation=dilation); the weights are left out at this level
DenseBlockInit(in_channels, dilation, filters) ==
    [in_channels |-> in_channels,
     filters     |-> filters,
     casualconv1 |-> CasualConv1dInit(2, 1, dilation, <<>>, 0),
     casualconv2 |-> CasualConv1dInit(2, 1, dilation, <<>>, 0)]

\* CasualConv1d.forward on a tensor (N, in_channels, T): nn.Conv1d rejects another
\* channel count; position o is computed from the input positions its taps read
CasualConv1dShape(m, in_channels, out_channels, a) ==
    IF a.shape[2] # in_channels THEN ShapeError
    ELSE LET length     == a.shape[3]
             out_length == Min(Conv1dLength(m.conv1d, length),
                               OutLength(length, m.stride))
         IN  Tensor(<<a.shape[1], out_channels, out_length>>,
                    [o \in 0..(out_length - 1) |->
                        UNION {a.deps[k - m.conv1d.padding] :
                                 k \in {k \in Conv1dTaps(m.conv1d, o) :
                                          /\ k >= m.conv1d.padding
                                          /\ k < m.conv1d.padding + length}}])

\* t.cat((a, b), dim=1): the other dimensions must agree
Cat(a, b) ==
    IF ~a.ok \/ ~b.ok \/ a.shape[1] # b.shape[1] \/ a.shape[3] # b.shape[3]
    THEN ShapeError
    ELSE Tensor(<<a.shape[1], a.shape[2] + b.shape[2], a.shape[3]>>,
                [o \in 0..(a.shape[3] - 1) |-> a.deps[o] \cup b.deps[o]])

\* DenseBlock.forward: cat((input, tanh(xf) * sigmoid(xg)), dim=1)
DenseBlockForward(block, a) ==
    LET xf == CasualConv1dShape(block.casualconv1, block.in_channels, block.filters, a)
        xg == CasualConv1dShape(block.casualconv2, block.in_channels, block.filters, a)
        activations == IF xf.ok /\ xg.ok /\ xf.shape = xg.shape
                       THEN Tensor(xf.shape,
                                   [o \in DOMAIN xf.deps |-> xf.deps[o] \cup xg.deps[o]])
                       ELSE ShapeError
    IN  Cat(a, activations)

\* TCBlock.__init__: the dilation of dense block k, 2 ** (k + 1)
Dilation(k) == 2 ^ (k + 1)

\* TCBlock.__init__: range(int(m.ceil(m.log(seq_length, 2))))
DenseBlockCount(seq_length) == CeilLog2(seq_length)

\* TCBlock.__init__
TCBlockInit(in_channels, seq_length, filters) ==
    [dense_blocks |->
        [k \in 0..(DenseBlockCount(seq_length) - 1) |->
            DenseBlockInit(in_channels + k * filters, Dilation(k), filters)]]

\* a filter count rounded down
NumFiltersFloor(seq_length) ==
    IF 2 ^ CeilLog2(seq_length) = seq_length THEN CeilLog2(seq_length)
    ELSE CeilLog2(seq_length) - 1

\* TCDNNet.__init__: num_filters = int(m.ceil(m.log(seq_length, 2)))
NumFilters(seq_length) == CeilLog2(seq_length)

\* TCDNNet.__init__: the counter channels before temporal block k is added
RECURSIVE TConvChannels(_, _, _, _)
TConvChannels(in_channels, seq_length, tc_layers, k) ==
    IF k = 0 THEN in_channels
    ELSE TConvChannels(in_channels, seq_length, tc_layers, k - 1)
         + NumFilters(seq_length) * tc_layers[k - 1]

\* nn.Linear(in_features, out_features)
LinearInit(in_features, out_features) ==
    [in_features |-> in_features, out_features |-> out_features]

\* nn.Linear.forward: the last dimension must be in_features
LinearShape(layer, a) ==
    LET n == Len(a.shape)
    IN  IF a.shape[n] # layer.in_features THEN ShapeError
        ELSE Tensor([a.shape EXCEPT ![n] = layer.out_features], a.deps)

\* TCDNNet.__init__: the width of the input of fully connected layer k
FcIn(channels, widths, k) == IF k = 0 THEN channels ELSE widths[k - 1]

\* TCDNNet.__init__; tc_layers and fc_layers are indexed from 0, and head holds
\* out_channels, additional_length, att_layer, fc_layers and final_process
TCDNNetInit(in_channels, seq_length, tc_layers, head) ==
    LET out_channels      == head.out_channels
        additional_length == head.additional_length
        att_layer         == head.att_layer
        fc_layers         == head.fc_layers
        final_process     == head.final_process
        tc_num   == Length(tc_layers)
        att_in   == TConvChannels(in_channels, seq_length, tc_layers, tc_num)
        channels == att_in + att_layer[2] + additional_length
        widths   == [k \in 0..Length(fc_layers) |->
                        IF k < Length(fc_layers) THEN fc_layers[k] ELSE out_channels]
    IN  [tconv |-> [k \in 0..(tc_num - 1) |->
                      TCBlockInit(TConvChannels(in_channels, seq_length, tc_layers, k),
                                  seq_length, tc_layers[k])],
         attention |-> [linear_query  |-> LinearInit(att_in, att_layer[1]),
                        linear_keys   |-> LinearInit(att_in, att_layer[1]),
                        linear_values |-> LinearInit(att_in, att_layer[2])],
         fc_amalgamate |-> LinearInit(seq_length, 1),
         fc |-> [k \in 0..Length(fc_layers) |->
                   LinearInit(FcIn(channels, widths, k), widths[k])],
         in_channels |-> in_channels,
         out_channels |-> out_channels,
         seq_length |-> seq_length,
         additional_length |-> additional_length,
         tc_layers |-> tc_layers,
         tc_num |-> tc_num,
         fc_num |-> Length(fc_layers) + 1,
         final_procecss |-> final_process]

\* AttentionBlock.forward on a tensor (N, T, C) without time steps: the three
\* linear layers, the (N, T, T) scores and weights, and cat((input, tmp), dim=2).
\* rel[i][j] is open for j <= i and is normalized over the rows k >= j, so row i
\* of the result is computed from every position k with j <= k for some j <= i.
AttentionBlockShape(a, in) ==
    LET keys   == LinearShape(a.linear_keys, in)
        query  == LinearShape(a.linear_query, in)
        values == LinearShape(a.linear_values, in)
        n      == in.shape[1]
        length == in.shape[2]
    IN  IF ~keys.ok \/ ~query.ok \/ ~values.ok
        THEN [ok |-> FALSE, out |-> ShapeError, rel |-> <<>>, raw |-> <<>>]
        ELSE [ok  |-> TRUE,
              out |-> Tensor(<<n, length, in.shape[3] + values.shape[3]>>,
                             [o \in 0..(length - 1) |->
                                UNION {in.deps[k] :
                                         k \in {k \in 0..(length - 1) :
                                                  \E j \in 0..o : j <= k}}]),
              rel |-> <<n, length, length>>,
              raw |-> <<n, length, length>>]

\* t.squeeze(a, dim=-1) of a tensor (N, C, 1); the one position left is computed
\* from everything the time axis was
Squeeze(a) ==
    IF a.shape[3] # 1 THEN a
    ELSE Tensor(<<a.shape[1], a.shape[2]>>,
                [o \in 0..0 |-> UNION {a.deps[k] : k \in DOMAIN a.deps}])

\* the filter counts of a temporal block
Filters == {1, 2}

\* the sequence lengths a network is built for: the short ones, and the length
\* where the floating-point logarithm is off
SeqLengths == (2..MaxNetSeq) \cup Log2RoundsUp
\* the batch sizes of a call
Batches == {1, 2}

\* the rest of a configuration: out_channels, additional_length, att_layer,
\* fc_layers and final_process
Heads ==
    {[out_channels |-> 1, additional_length |-> 0, att_layer |-> <<1, 1>>,
      fc_layers |-> <<>>, final_process |-> None],
     [out_channels |-> 2, additional_length |-> 0, att_layer |-> <<2, 3>>,
      fc_layers |-> [k \in 0..0 |-> 3], final_process |-> "softmax"],
     [out_channels |-> 2, additional_length |-> 1, att_layer |-> <<1, 2>>,
      fc_layers |-> <<>>, final_process |-> "tanh"],
     [out_channels |-> 1, additional_length |-> 1, att_layer |-> <<2, 1>>,
      fc_layers |-> [k \in 0..0 |-> 2], final_process |-> "sigmoid"]}

\* the argument additional: None, or a tensor (N, width)
NoAdditional == [given |-> FALSE, width |-> 0]

\* the state after TCDNNet(in_channels, out_channels, seq_length, ...); a
\* seq_length of 1 builds no dense block and the constructor fails
NetInit ==
    /\ \E in_channels \in 1..MaxChannels, seq_length \in SeqLengths,
          n \in 1..MaxTC, head \in Heads :
         \E tc_layers \in [0..(n - 1) -> Filters] :
            net = TCDNNetInit(in_channels, seq_length, tc_layers, head)
    /\ net_pc = "constructed"
    /\ net_input = <<>> /\ net_additional = NoAdditional
    /\ net_x = NoTensor /\ net_rel = <<>> /\ net_raw = <<>>
    /\ net_i = 0 /\ tc_stage = 0
    /\ ConvIdle /\ AttIdle

\* an exception leaves forward
Raise ==
    /\ net_pc' = "error"
    /\ UNCHANGED <<net, net_input, net_additional, net_x, net_rel, net_raw, net_i,
                   tc_stage>>

\* TCDNNet.forward(input, None, additional) is entered: x = input
NetCall ==
    /\ net_pc = "constructed"
    /\ \E n \in Batches, length \in 1..MaxNetSeq, channels \in 1..MaxChannels,
          add \in {NoAdditional, [given |-> TRUE, width |-> net.additional_length]} :
         /\ net_input' = <<n, length, channels>>
         /\ net_additional' = add
         /\ net_x' = Tensor(<<n, length, channels>>, [o \in 0..(length - 1) |-> {o}])
    /\ net_i' = 0
    /\ net_pc' = "tconv"
    /\ UNCHANGED <<net, net_rel, net_raw, tc_stage, convVars, attVars>>

\* TCBlock.forward is entered: input = t.transpose(input, 1, 2)
TCBlockEnter ==
    /\ net_pc = "tconv"
    /\ net_x' = Transpose(net_x)
    /\ tc_stage' = 0
    /\ net_pc' = "dense"
    /\ UNCHANGED <<net, net_input, net_additional, net_rel, net_raw, net_i,
                   convVars, attVars>>

\* TCBlock.forward: input = block(input), for the next dense block
DenseBlockStep ==
    /\ net_pc = "dense"
    /\ tc_stage < Length(net.tconv[net_i].dense_blocks)
    /\ LET r == DenseBlockForward(net.tconv[net_i].dense_blocks[tc_stage], net_x)
       IN  IF r.ok
           THEN /\ net_x' = r
                /\ tc_stage' = tc_stage + 1
                /\ UNCHANGED <<net, net_pc, net_input, net_additional, net_rel,
                               net_raw, net_i>>
           ELSE Raise
    /\ UNCHANGED <<convVars, attVars>>

\* TCBlock.forward returns t.transpose(input, 1, 2) and TCDNNet.forward goes on
\* to the next temporal block or to the attention
TCBlockReturn ==
    /\ net_pc = "dense"
    /\ tc_stage = Length(net.tconv[net_i].dense_blocks)
    /\ net_x' = Transpose(net_x)
    /\ net_i' = net_i + 1
    /\ net_pc' = IF net_i + 1 < net.tc_num THEN "tconv" ELSE "attention"
    /\ UNCHANGED <<net, net_input, net_additional, net_rel, net_raw, tc_stage,
                   convVars, attVars>>

\* TCDNNet.forward: x, rel, raw = self.layers["attention"](x, time_steps)
Attention ==
    /\ net_pc = "attention"
    /\ LET r == AttentionBlockShape(net.attention, net_x)
       IN  IF r.ok
           THEN /\ net_x' = r.out
                /\ net_rel' = r.rel
                /\ net_raw' = r.raw
                /\ net_pc' = "amalgamate"
                /\ UNCHANGED <<net, net_input, net_additional, net_i, tc_stage>>
           ELSE Raise
    /\ UNCHANGED <<convVars, attVars>>

\* TCDNNet.forward: x = t.transpose(x, 1, 2), then
\* x = t.squeeze(self.activation(self.layers["fc_amalgamate"](x)), dim=-1)
Amalgamate ==
    /\ net_pc = "amalgamate"
    /\ LET r == LinearShape(net.fc_amalgamate, Transpose(net_x))
       IN  IF r.ok
           THEN /\ net_x' = Squeeze(r)
                /\ net_pc' = "additional"
                /\ UNCHANGED <<net, net_input, net_additional, net_rel, net_raw,
                               net_i, tc_stage>>
           ELSE Raise
    /\ UNCHANGED <<convVars, attVars>>

\* TCDNNet.forward: if additional is not None: x = t.cat((x, additional), dim=1)
CatAdditional ==
    /\ net_pc = "additional"
    /\ net_x' = IF net_additional.given
                THEN Tensor(<<net_x.shape[1], net_x.shape[2] + net_additional.width>>,
                            net_x.deps)
                ELSE net_x
    /\ net_i' = 0
    /\ net_pc' = "fc"
    /\ UNCHANGED <<net, net_input, net_additional, net_rel, net_raw, tc_stage,
                   convVars, attVars>>

\* TCDNNet.forward: x = self.layers["fc_{}".format(i)](x), with the activation
\* after every layer but the last
FcStep ==
    /\ net_pc = "fc"
    /\ LET r == LinearShape(net.fc[net_i], net_x)
       IN  IF r.ok
           THEN /\ net_x' = r
                /\ net_i' = net_i + 1
                /\ net_pc' = IF net_i + 1 < net.fc_num THEN "fc" ELSE "final"
                /\ UNCHANGED <<net, net_input, net_additional, net_rel, net_raw,
                               tc_stage>>
           ELSE Raise
    /\ UNCHANGED <<convVars, attVars>>

\* TCDNNet.forward: the final process, which keeps the shape, and the return
FinalProcess ==
    /\ net_pc = "final"
    /\ net_x' = net_x
    /\ net_pc' = "returned"
    /\ UNCHANGED <<net, net_input, net_additional, net_rel, net_raw, net_i,
                   tc_stage, convVars, attVars>>

NetNext ==
    \/ NetCall
    \/ TCBlockEnter
    \/ DenseBlockStep
    \/ TCBlockReturn
    \/ Attention
    \/ Amalgamate
    \/ CatAdditional
    \/ FcStep
    \/ FinalProcess

SpecNet == NetInit /\ [][NetNext]_vars

\* a call of TCDNNet.forward is under way or over
NetCalled == net_pc \notin {"idle", "constructed"}

\* temporal block k has just returned to TCDNNet.forward
TCBlockReturned(k) == net_pc \in {"tconv", "attention"} /\ net_i = k + 1

\* the input has the channels the network was built for
NetInputFits == NetCalled /\ net_input[3] = net.in_channels

\* C6: a TCBlock built for sequence length T stacks ceil(log2(T)) dense blocks of
\* kernel size 2 whose dilations are 1, 2, 4, ..., and on a sequence of length T
\* its output at position t is computed from every input position <= t: at the
\* last position, from the whole sequence.
C6_ReceptiveField ==
    (NetInputFits /\ TCBlockReturned(0) /\ net_input[2] = net.seq_length) =>
        LET blocks == net.tconv[0].dense_blocks
        IN  /\ Length(blocks) = ExactCeilLog2(net.seq_length)
            /\ \A k \in DOMAIN blocks :
                 /\ blocks[k].casualconv1.conv1d.kernel_size = 2
                 /\ blocks[k].casualconv1.conv1d.dilation = 2 ^ k
                 /\ blocks[k].casualconv2.conv1d.dilation = 2 ^ k
            /\ \A o \in 0..(net_input[2] - 1) : net_x.deps[o] = 0..o

\* C7: in TCBlock.forward on (N, T, C), dense block k receives the C + k*F
\* channels it was built for and T time positions, no dense block raises, and the
\* block returns (N, T, C + F*ceil(log2(seq_length))), the channel count that
\* TCDNNet.__init__ has in its counter after adding the block.
C7_Channels ==
    NetInputFits =>
        /\ (net_pc = "error" => net_rel # <<>>)
        /\ net_pc = "dense" =>
             LET blocks == net.tconv[net_i].dense_blocks
                 c == TConvChannels(net.in_channels, net.seq_length, net.tc_layers,
                                    net_i)
                 f == net.tc_layers[net_i]
             IN  /\ net_x.shape = <<net_input[1], c + tc_stage * f, net_input[2]>>
                 /\ tc_stage < Length(blocks)
                      => blocks[tc_stage].in_channels = net_x.shape[2]
        /\ \A k \in 0..(net.tc_num - 1) :
             TCBlockReturned(k) =>
                /\ net_x.shape[1] = net_input[1]
                /\ net_x.shape[2] = net_input[2]
                /\ net_x.shape[3] = net.tconv[k].dense_blocks[0].in_channels
                                    + net.tc_layers[k] * ExactCeilLog2(net.seq_length)
                /\ net_x.shape[3] = TConvChannels(net.in_channels, net.seq_length,
                                                  net.tc_layers, k + 1)

\* the case of C8: additional_length = 0, no side features, a sequence tensor
\* (N, T, in_channels)
C8_Case == NetInputFits /\ net.additional_length = 0 /\ ~net_additional.given

\* no exception has been raised, the call can go on until it returns, and what is
\* returned has the shapes
\* (N, out_channels), (N, T, T) and (N, T, T)
C8_Outcome ==
    /\ net_pc # "error"
    /\ net_pc # "returned" => ENABLED NetNext
    /\ net_pc = "returned" =>
         /\ net_x.shape = <<net_input[1], net.out_channels>>
         /\ net_rel = <<net_input[1], net_input[2], net_input[2]>>
         /\ net_raw = <<net_input[1], net_input[2], net_input[2]>>

\* C8 as stated: forward on a sequence of any length T <= seq_length raises
\* nothing and returns the three shapes.
C8_Original == (C8_Case /\ net_input[2] <= net.seq_length) => C8_Outcome

\* C8 amended: forward on a sequence of length T = seq_length raises nothing and
\* returns (N, out_channels), (N, T, T) and (N, T, T).
C8_Forward == (C8_Case /\ net_input[2] = net.seq_length) => C8_Outcome

\* C8: a call on a sequence of the configured length has returned
C8_Witness ==
    /\ C8_Case /\ net_pc = "returned"
    /\ net_input[2] = net.seq_length
    /\ net.seq_length >= 3
    /\ net_input[1] = 2

====
